---- MODULE Spec2Model ----
(***************************************************************************)
(* A model of src/app1.py, the PhonePe transaction dashboard: the state    *)
(* name standardization of the two loaders, the group-by / ratio / top-N   *)
(* computations of the case studies, the table loader and the page         *)
(* renders.                                                                *)
(*                                                                         *)
(* Strings are sequences of one-character strings, so that lower() and     *)
(* strip() are computed character by character.  A cell value is a record  *)
(* [kind, chars]: kind "str" carries the characters, every other kind      *)
(* (None, NaN, int, absent, unset) carries <<>>.                           *)
(***************************************************************************)
EXTENDS Integers, Sequences, FiniteSets, TLC

VARIABLES
    \* the two loaders on one name
    raw_name,      \* the raw name read from the source (NAME_1 / a States cell)
    table_key,     \* the cell of df["States"] after load_table_data's standardization
    geo_key,       \* properties.State_Name after load_geojson_data
    table_key2,    \* load_table_data's standardization applied to table_key
    \* the aggregation of one filtered row set
    view,          \* the case study whose rows are aggregated
    filtered,      \* the filtered rows (expansion_data / user_growth_data)
    summary,       \* groupby("State").agg(sum).reset_index() of filtered
    scores,        \* the ratio column computed on summary
    \* the ranking of one aggregated frame
    frame,         \* the ranking column of an aggregated frame, in row order
    topn,          \* the n of the nlargest call
    ranked,        \* the row positions nlargest returns, in output order
    \* the table loader
    engine_cache,  \* st.cache_resource's entry for get_database_engine
    call,          \* the last call of load_table_data: its inputs and its result
    \* the pages
    data,          \* load_all_data(): the nine loaded tables
    geojson_data,  \* load_geojson_data(): the boundary features
    page,          \* the sidebar radio
    case_study,    \* the sidebar selectbox
    selected_year,
    selected_quarter,
    shown,         \* what the last run of the script showed
    \* the memoized loads
    database,      \* what the database answers now
    data_cache,    \* st.cache_data's entries for load_all_data and load_table_data
    load_errors    \* the st.error elements the last run of the script showed

nameVars == <<raw_name, table_key, geo_key, table_key2>>
aggVars == <<view, filtered, summary, scores>>
rankVars == <<frame, topn, ranked>>
loadVars == <<engine_cache, call>>
uiVars == <<page, case_study, selected_year, selected_quarter, shown>>
appVars == <<data, geojson_data, page, case_study, selected_year, selected_quarter, shown>>
cacheVars == <<database, data_cache, load_errors>>

exceptNames == <<aggVars, rankVars, loadVars, appVars, cacheVars>>
exceptAgg == <<nameVars, rankVars, loadVars, appVars, cacheVars>>
exceptRank == <<nameVars, aggVars, loadVars, appVars, cacheVars>>
exceptLoad == <<nameVars, aggVars, rankVars, appVars, cacheVars>>
exceptApp == <<nameVars, aggVars, rankVars, loadVars, cacheVars>>
exceptCache == <<nameVars, aggVars, rankVars, call>>

vars == <<raw_name, table_key, geo_key, table_key2,
          view, filtered, summary, scores,
          frame, topn, ranked,
          engine_cache, call,
          data, geojson_data, page, case_study, selected_year, selected_quarter, shown,
          database, data_cache, load_errors>>

-----------------------------------------------------------------------------
(* Values *)

Str(s) == [kind |-> "str", chars |-> s]
None == [kind |-> "None", chars |-> <<>>]
NaN == [kind |-> "NaN", chars |-> <<>>]
IntCell == [kind |-> "int", chars |-> <<>>]
Absent == [kind |-> "absent", chars |-> <<>>]
Unset == [kind |-> "unset", chars |-> <<>>]

isinstance_str(v) == v.kind = "str"

-----------------------------------------------------------------------------
(* Bounds of the name inputs *)

MaxPad == 2
MaxLen == 3

-----------------------------------------------------------------------------
(* Characters *)

UpperCase ==
    <<"A","B","C","D","E","F","G","H","I","J","K","L","M",
      "N","O","P","Q","R","S","T","U","V","W","X","Y","Z">>
LowerCase ==
    <<"a","b","c","d","e","f","g","h","i","j","k","l","m",
      "n","o","p","q","r","s","t","u","v","w","x","y","z">>

Whitespace == {" ", "\t"}

lower_char(c) ==
    IF \E i \in 1..26 : UpperCase[i] = c
    THEN LowerCase[CHOOSE i \in 1..26 : UpperCase[i] = c]
    ELSE c

upper_char(c) ==
    IF \E i \in 1..26 : LowerCase[i] = c
    THEN UpperCase[CHOOSE i \in 1..26 : LowerCase[i] = c]
    ELSE c

\* str.lower()
lower(s) == [i \in 1..Len(s) |-> lower_char(s[i])]

\* str.strip(): leading and trailing whitespace removed
strip(s) ==
    LET keep == {i \in 1..Len(s) : s[i] \notin Whitespace}
    IN  IF keep = {} THEN <<>>
        ELSE LET a == CHOOSE i \in keep : \A j \in keep : i <= j
                 b == CHOOSE i \in keep : \A j \in keep : j <= i
             IN  SubSeq(s, a, b)

-----------------------------------------------------------------------------
(* The names the code mentions *)

orissa ==
    <<"o","r","i","s","s","a">>
odisha ==
    <<"o","d","i","s","h","a">>
andaman_and ==
    <<"a","n","d","a","m","a","n"," ","a","n","d"," ","n","i","c","o","b","a","r">>
andaman_amp ==
    <<"a","n","d","a","m","a","n"," ","&"," ","n","i","c","o","b","a","r"," ","i","s","l","a","n","d","s">>
dadra_and ==
    <<"d","a","d","r","a"," ","a","n","d"," ","n","a","g","a","r"," ","h","a","v","e","l","i"," ","a","n","d"," ","d","a","m","a","n"," ","a","n","d"," ","d","i","u">>
dadra_amp ==
    <<"d","a","d","r","a"," ","&"," ","n","a","g","a","r"," ","h","a","v","e","l","i"," ","&"," ","d","a","m","a","n"," ","&"," ","d","i","u">>
goa ==
    <<"g","o","a">>

\* a mapping table whose first target is itself a source of the table
chained_mappings ==
    { <<andaman_and, orissa>>,
      <<dadra_and, dadra_amp>>,
      <<orissa, odisha>> }

\* state_mappings of load_table_data, as (source, target) pairs
state_mappings ==
    { <<andaman_and, andaman_amp>>,
      <<dadra_and, dadra_amp>>,
      <<orissa, odisha>> }

\* Series.replace(state_mappings) on one cell: an exact match of a source is
\* replaced by its target, every other value (NaN included) is kept
replace(v) ==
    IF isinstance_str(v) /\ \E m \in state_mappings : m[1] = v.chars
    THEN Str((CHOOSE m \in state_mappings : m[1] = v.chars)[2])
    ELSE v

\* Series.str.lower() / Series.str.strip() on one cell of an object column: a
\* string is transformed, a non-string cell (None, NaN, a number) becomes NaN
str_lower(v) == IF isinstance_str(v) THEN Str(lower(v.chars)) ELSE NaN
str_strip(v) == IF isinstance_str(v) THEN Str(strip(v.chars)) ELSE NaN

\* load_table_data, lines 79-87, on one cell of df["States"]
StandardizeStates(v) == replace(str_strip(str_lower(v)))

\* load_geojson_data, lines 48-59: properties.State_Name of one feature whose
\* NAME_1 is v (Absent: the feature has no NAME_1, and .get gives "")
State_Name(v) ==
    LET state_name == IF v = Absent THEN Str(<<>>) ELSE v
    IN  IF isinstance_str(state_name)
        THEN LET standardized_name == strip(lower(state_name.chars))
             IN  IF standardized_name = orissa THEN Str(odisha)
                 ELSE Str(standardized_name)
        ELSE Str(<<>>)

-----------------------------------------------------------------------------
(* The raw names the loaders are run on *)

KnownNames == {orissa, odisha, andaman_and, andaman_amp, dadra_and, dadra_amp, goa}

RECURSIVE SeqsUpTo(_, _)
SeqsUpTo(S, n) ==
    IF n = 0 THEN {<<>>}
    ELSE LET shorter == SeqsUpTo(S, n - 1)
         IN  shorter \cup {Append(s, c) : s \in shorter, c \in S}

Pads == SeqsUpTo(Whitespace, MaxPad)

upper(s) == [i \in 1..Len(s) |-> upper_char(s[i])]
capitalize(s) == [i \in 1..Len(s) |-> IF i = 1 THEN upper_char(s[i]) ELSE s[i]]

Spellings(s) == {s, upper(s), capitalize(s)}

RawStrings ==
    { l \o t \o r : l \in Pads, r \in Pads, t \in UNION {Spellings(n) : n \in KnownNames} }
    \cup SeqsUpTo({"o", "O", " "}, MaxLen)

RawNames == {Str(s) : s \in RawStrings} \cup {None, NaN, IntCell, Absent}

-----------------------------------------------------------------------------
(* The parts of the model that a specification leaves alone *)

NotRun == [done |-> FALSE, rows |-> <<>>]
Done(r) == [done |-> TRUE, rows |-> r]

\* pd.DataFrame(): no columns, no rows
EmptyFrame == [columns |-> {}, rows |-> 0]

NoCall ==
    [table_name |-> "", engine |-> "", read_sql |-> "", source |-> EmptyFrame,
     dtype |-> "", outcome |-> "not called", df |-> EmptyFrame, errors |-> {}]

NoOutput ==
    [done |-> FALSE, raised |-> FALSE, metrics |-> {}, charts |-> {}, reports |-> {}]

NamesIdle ==
    /\ raw_name = Unset
    /\ table_key = Unset
    /\ geo_key = Unset
    /\ table_key2 = Unset

AggIdle ==
    /\ view = "none"
    /\ filtered = <<>>
    /\ summary = NotRun
    /\ scores = NotRun

RankIdle ==
    /\ frame = <<>>
    /\ topn = 0
    /\ ranked = NotRun

LoadIdle ==
    /\ engine_cache = "unset"
    /\ call = NoCall

AppIdle ==
    /\ data = <<>>
    /\ geojson_data = ""
    /\ page = ""
    /\ case_study = ""
    /\ selected_year = 0
    /\ selected_quarter = 0
    /\ shown = NoOutput

CacheIdle ==
    /\ database = ""
    /\ data_cache = ""
    /\ load_errors = {}

-----------------------------------------------------------------------------
(* The two loaders applied to one raw name *)

NamesInit ==
    /\ raw_name \in RawNames
    /\ table_key = Unset
    /\ geo_key = Unset
    /\ table_key2 = Unset
    /\ AggIdle
    /\ RankIdle
    /\ LoadIdle
    /\ AppIdle
    /\ CacheIdle

\* load_table_data standardizes a States cell (a cell is never absent)
LoadTableCell ==
    /\ table_key = Unset
    /\ raw_name # Absent
    /\ table_key' = StandardizeStates(raw_name)
    /\ UNCHANGED <<raw_name, geo_key, table_key2, exceptNames>>

\* load_geojson_data writes State_Name of a feature
LoadGeoFeature ==
    /\ geo_key = Unset
    /\ geo_key' = State_Name(raw_name)
    /\ UNCHANGED <<raw_name, table_key, table_key2, exceptNames>>

\* the standardization of load_table_data run on its own output
RestandardizeCell ==
    /\ table_key # Unset
    /\ table_key2 = Unset
    /\ table_key2' = StandardizeStates(table_key)
    /\ UNCHANGED <<raw_name, table_key, geo_key, exceptNames>>

NamesNext == LoadTableCell \/ LoadGeoFeature \/ RestandardizeCell

SpecNames == NamesInit /\ [][NamesNext]_vars

-----------------------------------------------------------------------------
(* The aggregation layer: groupby(...).sum() and the two ratios *)

MaxRows == 3

\* the State values of the rows: canonical keys in sorted order, and the NaN
\* that load_table_data leaves in a cell that was not a string
StateKeys == <<"goa", "odisha">>
NullKey == "NaN"
StateValues == {StateKeys[i] : i \in 1..Len(StateKeys)} \cup {NullKey}
Amounts == {0, 1}

MarketExpansion == "Market Expansion Strategy"
UserGrowth == "User Growth Analysis"

TransactionRows ==
    [State : StateValues, Transaction_amount : Amounts, Transaction_count : Amounts]
UserRows ==
    [State : StateValues, RegisteredUsers : Amounts, AppOpens : Amounts]

RECURSIVE SumCol(_, _)
\* Series.sum() of column col
SumCol(rows, col) ==
    IF rows = <<>> THEN 0
    ELSE rows[1][col] + SumCol(Tail(rows), col)

RECURSIVE SelectRows(_, _, _)
\* the rows whose column col equals k, in row order
SelectRows(rows, col, k) ==
    IF rows = <<>> THEN <<>>
    ELSE IF rows[1][col] = k
         THEN <<rows[1]>> \o SelectRows(Tail(rows), col, k)
         ELSE SelectRows(Tail(rows), col, k)

\* DataFrame.groupby(key).agg({c: "sum"}).reset_index() with pandas' defaults
\* sort=True, dropna=True: one row per distinct non-null key, in key order,
\* each reduced column the sum over the group; rows with a null key are in
\* no group
groupby_sum(rows, key, cols) ==
    LET present == {i \in 1..Len(StateKeys) :
                       \E j \in 1..Len(rows) : rows[j][key] = StateKeys[i]}
        RECURSIVE Build(_)
        Build(i) ==
            IF i > Len(StateKeys) THEN <<>>
            ELSE IF i \in present
                 THEN <<[c \in {key} \cup cols |->
                            IF c = key THEN StateKeys[i]
                            ELSE SumCol(SelectRows(rows, key, StateKeys[i]), c)]>>
                      \o Build(i + 1)
                 ELSE Build(i + 1)
    IN  Build(1)

\* a float: a finite quotient n/d, inf or NaN
Num(n, d) == [kind |-> "num", n |-> n, d |-> d]
Inf == [kind |-> "inf", n |-> 0, d |-> 0]
FloatNaN == [kind |-> "nan", n |-> 0, d |-> 0]

IsZero(x) == x.kind = "num" /\ x.n = 0

\* Series / Series on nonnegative numbers: x/0 is inf for x > 0 and NaN for x = 0
truediv(x, y) ==
    IF y = 0 THEN (IF x = 0 THEN FloatNaN ELSE Inf)
    ELSE Num(x, y)

\* Series.fillna(0): NaN becomes 0, every other value (inf included) is kept
fillna0(x) == IF x.kind = "nan" THEN Num(0, 1) ELSE x

\* lines 517-519
Growth_Score(expansion_summary) ==
    [i \in 1..Len(expansion_summary) |->
        fillna0(truediv(expansion_summary[i].Transaction_amount,
                        expansion_summary[i].Transaction_count))]

\* lines 575-577
Engagement_Rate(user_summary) ==
    [i \in 1..Len(user_summary) |->
        fillna0(truediv(user_summary[i].AppOpens,
                        user_summary[i].RegisteredUsers))]

AggInit ==
    /\ NamesIdle
    /\ RankIdle
    /\ LoadIdle
    /\ AppIdle
    /\ CacheIdle
    /\ \/ view = MarketExpansion /\ filtered \in SeqsUpTo(TransactionRows, MaxRows)
       \/ view = UserGrowth /\ filtered \in SeqsUpTo(UserRows, MaxRows)
    /\ summary = NotRun
    /\ scores = NotRun

\* lines 494-497: expansion_summary
SummarizeExpansion ==
    /\ view = MarketExpansion
    /\ ~summary.done
    /\ summary' = Done(groupby_sum(filtered, "State",
                                   {"Transaction_amount", "Transaction_count"}))
    /\ UNCHANGED <<view, filtered, scores, exceptAgg>>

\* lines 552-555: user_summary
SummarizeUsers ==
    /\ view = UserGrowth
    /\ ~summary.done
    /\ summary' = Done(groupby_sum(filtered, "State", {"RegisteredUsers", "AppOpens"}))
    /\ UNCHANGED <<view, filtered, scores, exceptAgg>>

\* lines 517-519
ComputeGrowthScore ==
    /\ view = MarketExpansion
    /\ summary.done
    /\ ~scores.done
    /\ scores' = Done(Growth_Score(summary.rows))
    /\ UNCHANGED <<view, filtered, summary, exceptAgg>>

\* lines 575-577
ComputeEngagementRate ==
    /\ view = UserGrowth
    /\ summary.done
    /\ ~scores.done
    /\ scores' = Done(Engagement_Rate(summary.rows))
    /\ UNCHANGED <<view, filtered, summary, exceptAgg>>

AggNext ==
    \/ SummarizeExpansion
    \/ SummarizeUsers
    \/ ComputeGrowthScore
    \/ ComputeEngagementRate

SpecAgg == AggInit /\ [][AggNext]_vars

-----------------------------------------------------------------------------
(* The ranking: Series.nlargest / DataFrame.nlargest(n, column) *)

MaxGroups == 6

\* the values of the ranking column
RankValues == {0, 1, 2}

Min(a, b) == IF a < b THEN a ELSE b

\* head(n)
head(s, n) == SubSeq(s, 1, Min(n, Len(s)))

\* the positions of S whose value is greatest
Largest(values, S) == {i \in S : \A j \in S : values[j] <= values[i]}

RECURSIVE argsort_keep_last(_, _)
\* a descending order of the positions S that puts equal values in reverse row order
argsort_keep_last(values, S) ==
    IF S = {} THEN <<>>
    ELSE LET i == CHOOSE x \in Largest(values, S) :
                      \A y \in Largest(values, S) : y <= x
         IN  <<i>> \o argsort_keep_last(values, S \ {i})

RECURSIVE argsort_mergesort(_, _)
\* (-values)[ns].argsort(kind="mergesort"): the positions S in descending order
\* of value, equal values in row order (the sort is stable)
argsort_mergesort(values, S) ==
    IF S = {} THEN <<>>
    ELSE LET i == CHOOSE x \in Largest(values, S) :
                      \A y \in Largest(values, S) : x <= y
         IN  <<i>> \o argsort_mergesort(values, S \ {i})

RECURSIVE sort_values_descending(_, _)
\* sort_values(ascending=False) with its default kind="quicksort", which is
\* not stable: every descending order of the positions S is a possible
\* result, equal values in any order
sort_values_descending(values, S) ==
    IF S = {} THEN {<<>>}
    ELSE UNION { {<<i>> \o t : t \in sort_values_descending(values, S \ {i})} :
                   i \in Largest(values, S) }

\* kth_smallest(-values, n - 1): the n-th largest value, for 1 <= n <= Len(values)
kth_largest(values, n) ==
    LET v == CHOOSE x \in {values[i] : i \in 1..Len(values)} :
                 /\ Cardinality({i \in 1..Len(values) : values[i] > x}) < n
                 /\ Cardinality({i \in 1..Len(values) : values[i] >= x}) >= n
    IN  v

\* nlargest(n) with keep="first" on a column without NaN: the possible
\* results, each the row positions in output order.  n >= len takes pandas'
\* "slow" path, sort_values(ascending=False).head(n); otherwise the rows not
\* below the n-th largest value are sorted by a stable sort and cut to n.
nlargest(values, n) ==
    IF n <= 0 THEN {<<>>}
    ELSE IF n >= Len(values)
    THEN {head(t, n) : t \in sort_values_descending(values, 1..Len(values))}
    ELSE LET kth_val == kth_largest(values, n)
             ns == {i \in 1..Len(values) : values[i] >= kth_val}
         IN  {head(argsort_mergesort(values, ns), n)}

RankInit ==
    /\ NamesIdle
    /\ AggIdle
    /\ LoadIdle
    /\ AppIdle
    /\ CacheIdle
    /\ frame \in SeqsUpTo(RankValues, MaxGroups)
    /\ topn = 0
    /\ ranked = NotRun

\* lines 339, 407, 521, 579: nlargest(10, ...)
TopTen ==
    /\ ~ranked.done
    /\ topn' = 10
    /\ \E inds \in nlargest(frame, 10) : ranked' = Done(inds)
    /\ UNCHANGED <<frame, exceptRank>>

\* line 354: payment_summary, nlargest(5)
TopFive ==
    /\ ~ranked.done
    /\ topn' = 5
    /\ \E inds \in nlargest(frame, 5) : ranked' = Done(inds)
    /\ UNCHANGED <<frame, exceptRank>>

\* line 389: brand_summary, nlargest(8)
TopEight ==
    /\ ~ranked.done
    /\ topn' = 8
    /\ \E inds \in nlargest(frame, 8) : ranked' = Done(inds)
    /\ UNCHANGED <<frame, exceptRank>>

RankNext == TopTen \/ TopFive \/ TopEight

SpecRank == RankInit /\ [][RankNext]_vars


-----------------------------------------------------------------------------
(* The table loader: get_database_engine and load_table_data *)

\* the values of load_all_data's tables dict, lines 103-113
TableNames ==
    {"aggregated_transaction", "aggregated_insurance", "aggregated_user",
     "map_transaction", "map_insurance", "map_user",
     "top_transaction", "top_insurance", "top_user"}

ConnectionFailed == "Database connection failed"
LoadFailed(table_name) == <<"Failed to load data from", table_name>>

\* get_database_engine under st.cache_resource.  A first call runs the body:
\* create_engine succeeds, or raises and the except branch reports the error and
\* returns None.  A later call returns the cached value, and the elements the
\* body showed (the st.error) are shown again.
get_database_engine(cache, create_engine_ok) ==
    IF cache # "unset"
    THEN [engine |-> cache, cache |-> cache,
          errors |-> IF cache = "None" THEN {ConnectionFailed} ELSE {}]
    ELSE IF create_engine_ok
         THEN [engine |-> "engine", cache |-> "engine", errors |-> {}]
         ELSE [engine |-> "None", cache |-> "None", errors |-> {ConnectionFailed}]

\* whether the body of the try block, lines 74-92, raises: read_sql fails (the
\* server is unreachable, the table is absent), or the States column has no
\* .str accessor because it does not hold strings
TryRaises(read_sql, source, dtype) ==
    \/ read_sql # "ok"
    \/ "States" \in source.columns /\ dtype # "object"

\* lines 78-90: the frame the try block returns, States renamed to State
Standardized(source) ==
    IF "States" \in source.columns
    THEN [source EXCEPT !.columns = (@ \ {"States"}) \cup {"State"}]
    ELSE source

\* a loader whose standardization runs after the try block, unprotected
load_table_data_unprotected(table_name, engine, read_sql, source, dtype) ==
    IF engine = "None"
    THEN [outcome |-> "returned", df |-> EmptyFrame, errors |-> {}]
    ELSE IF read_sql # "ok"
    THEN [outcome |-> "returned", df |-> EmptyFrame, errors |-> {LoadFailed(table_name)}]
    ELSE IF TryRaises(read_sql, source, dtype)
    THEN [outcome |-> "raised", df |-> EmptyFrame, errors |-> {}]
    ELSE [outcome |-> "returned", df |-> Standardized(source), errors |-> {}]

\* load_table_data, lines 69-95, given the engine get_database_engine returned
load_table_data(table_name, engine, read_sql, source, dtype) ==
    IF engine = "None"
    THEN [outcome |-> "returned", df |-> EmptyFrame, errors |-> {}]
    ELSE IF TryRaises(read_sql, source, dtype)
    THEN [outcome |-> "returned", df |-> EmptyFrame, errors |-> {LoadFailed(table_name)}]
    ELSE [outcome |-> "returned", df |-> Standardized(source), errors |-> {}]

\* what read_sql may give: the frames of a table with or without a States column
SourceFrames ==
    [columns : {{"States", "Years", "Quarter"}, {"District", "Years", "Quarter"}},
     rows : {0, 1}]

LoadInit ==
    /\ NamesIdle
    /\ AggIdle
    /\ RankIdle
    /\ AppIdle
    /\ CacheIdle
    /\ engine_cache = "unset"
    /\ call = NoCall

\* one call load_table_data(table_name), line 117, in some state of the database
LoadTableData ==
    \E table_name \in TableNames, create_engine_ok \in BOOLEAN,
       read_sql \in {"ok", "unreachable", "no such table"},
       source \in SourceFrames, dtype \in {"object", "int64"} :
        LET e == get_database_engine(engine_cache, create_engine_ok)
            r == load_table_data(table_name, e.engine, read_sql, source, dtype)
        IN  /\ engine_cache' = e.cache
            /\ call' = [table_name |-> table_name, engine |-> e.engine,
                        read_sql |-> read_sql, source |-> source, dtype |-> dtype,
                        outcome |-> r.outcome, df |-> r.df,
                        errors |-> e.errors \cup r.errors]
            /\ UNCHANGED exceptLoad

LoadNext == LoadTableData

SpecLoad == LoadInit /\ [][LoadNext]_vars

-----------------------------------------------------------------------------
(* The loaded tables *)

\* A table is kept as its columns, the (Years, Quarter) pairs of its rows and
\* whether its State cells are all null.  pd.DataFrame(), which a failed load
\* returns, has no columns and no rows.
EmptyTable == [columns |-> {}, periods |-> {}, null_state |-> FALSE]

\* DataFrame.empty
empty(df) == df.periods = {}

\* the columns the pages read
Columns ==
    [agg_transaction |-> {"State", "Years", "Quarter", "Transaction_type",
                          "Transaction_count", "Transaction_amount"},
     agg_insurance |-> {"State", "Years", "Quarter", "Insurance_count", "Insurance_amount"},
     agg_user |-> {"State", "Years", "Quarter", "Brands", "Transaction_count"},
     map_transaction |-> {"State", "Years", "Quarter", "District",
                          "Transaction_count", "Transaction_amount"},
     map_insurance |-> {"State", "Years", "Quarter", "District",
                        "Insurance_count", "Insurance_amount"},
     map_user |-> {"State", "Years", "Quarter", "District", "RegisteredUsers", "AppOpens"},
     top_transaction |-> {"State", "Years", "Quarter", "Transaction_count",
                          "Transaction_amount"},
     top_insurance |-> {"State", "Years", "Quarter", "Insurance_count", "Insurance_amount"},
     top_user |-> {"State", "Years", "Quarter", "Registered_Users"}]

\* the periods of the loaded tables: two years with different quarters, or
\* the first quarter alone
Periods == {<<2022, 1>>, <<2022, 2>>, <<2023, 1>>}
FirstPeriod == {<<2022, 1>>}

Loaded(key, P) == [columns |-> Columns[key], periods |-> P, null_state |-> FALSE]
Without(key, col) == [Loaded(key, Periods) EXCEPT !.columns = @ \ {col}]
NullStates(key) == [Loaded(key, Periods) EXCEPT !.null_state = TRUE]

\* what load_all_data may have returned: every table is empty (its load
\* failed) or loaded, some of them without a column a page reads, with other
\* periods or with null State cells
LoadedData ==
    [agg_transaction : {EmptyTable, Loaded("agg_transaction", Periods),
                        Without("agg_transaction", "Transaction_type"),
                        NullStates("agg_transaction")},
     agg_insurance : {EmptyTable, Loaded("agg_insurance", Periods),
                      Without("agg_insurance", "State")},
     agg_user : {EmptyTable, Loaded("agg_user", Periods), Without("agg_user", "Brands")},
     map_transaction : {EmptyTable, Loaded("map_transaction", Periods)},
     map_insurance : {EmptyTable, Loaded("map_insurance", Periods)},
     map_user : {EmptyTable, Loaded("map_user", Periods), Loaded("map_user", FirstPeriod),
                 Without("map_user", "AppOpens")},
     top_transaction : {EmptyTable, Loaded("top_transaction", Periods)},
     top_insurance : {EmptyTable, Loaded("top_insurance", Periods)},
     top_user : {EmptyTable, Loaded("top_user", Periods)}]

-----------------------------------------------------------------------------
(* Frames and chart builders *)

\* a period filter that forgets the quarter
filter_year_only(df, year, quarter) ==
    [df EXCEPT !.periods = {p \in @ : p[1] = year}]

\* df[(df["Years"] == year) & (df["Quarter"] == quarter)]
FilterPeriod(df, year, quarter) ==
    [df EXCEPT !.periods = @ \cap {<<year, quarter>>}]

\* df[df["Years"] == year]
FilterYear(df, year) ==
    [df EXCEPT !.periods = {p \in @ : p[1] = year}]

\* what one part of the script shows, and whether it raised
Shows(metrics, charts, reports) ==
    [raised |-> FALSE, metrics |-> metrics, charts |-> charts, reports |-> reports]
Nothing == Shows({}, {}, {})
KeyError == [raised |-> TRUE, metrics |-> {}, charts |-> {}, reports |-> {}]

RECURSIVE Run(_)
\* the parts of a script in order: what they show up to the first that raises
Run(parts) ==
    IF parts = <<>> THEN Nothing
    ELSE IF parts[1].raised THEN parts[1]
    ELSE LET rest == Run(Tail(parts))
         IN  [raised |-> rest.raised,
              metrics |-> parts[1].metrics \cup rest.metrics,
              charts |-> parts[1].charts \cup rest.charts,
              reports |-> parts[1].reports \cup rest.reports]

\* groupby(key).agg / [cols].sum(): its rows are the non-null keys of df, so
\* it is empty when df is, or when key is State and every State cell is null
Grouped(df, key) == empty(df) \/ (key = "State" /\ df.null_state)

NoMapData == "No data available for the map."
NoChartData == "No data available for the chart."

\* create_choropleth_map, lines 124-155, followed by the caller's
\* "if fig: st.plotly_chart(fig)": an empty frame gives a warning and None
create_choropleth_map(is_empty, chart) ==
    IF is_empty THEN Shows({}, {}, {NoMapData})
    ELSE Shows({}, {chart}, {})

\* create_pie_chart, lines 157-165, and create_bar_chart, lines 167-176,
\* followed by the caller's "if fig: st.plotly_chart(fig)"
create_chart(is_empty, chart) ==
    IF is_empty THEN Shows({}, {}, {NoChartData})
    ELSE Shows({}, {chart}, {})

\* df[c] for every c of cols succeeds: otherwise pandas raises KeyError
Has(df, cols) == cols \subseteq df.columns

-----------------------------------------------------------------------------
(* The pages *)

DashboardPage == "Dashboard"
CaseStudiesPage == "Case Studies"
TransactionDynamics == "Transaction Dynamics Analysis"
DeviceUsage == "Device Usage & User Engagement"
InsuranceMarket == "Insurance Market Analysis"

Max(S) == CHOOSE x \in S : \A y \in S : y <= x

\* sorted(df["Years"].unique()) if not df.empty else [2023]
years(df) == IF empty(df) THEN {2023} ELSE {p[1] : p \in df.periods}

\* quarter options that forget the selected year
quarters_of_any_year(df, year) ==
    IF empty(df) THEN {1} ELSE {p[2] : p \in df.periods}

\* sorted(df[df["Years"] == selected_year]["Quarter"].unique()) if not df.empty else [1]
quarters(df, year) ==
    IF empty(df) THEN {1} ELSE {p[2] : p \in FilterYear(df, year).periods}

\* a metric that sums its column without asking whether the table is empty
metric_unguarded(df, col, label) ==
    IF Has(df, {col}) THEN Shows({<<label, "sum">>}, {}, {}) ELSE KeyError

\* lines 216-229: df[col].sum() if not df.empty else 0, shown by st.metric
metric(df, col, label) ==
    IF empty(df) THEN Shows({<<label, "0">>}, {}, {})
    ELSE IF Has(df, {col}) THEN Shows({<<label, "sum">>}, {}, {})
    ELSE KeyError

\* lines 236-238
latest_year(df) == Max(years(df))
latest_quarter(df) == Max(quarters(df, latest_year(df)))

\* lines 236-258
TransactionHeatmap(df) ==
    IF empty(df) THEN Nothing
    ELSE IF Has(df, {"Years", "Quarter", "State", "Transaction_amount", "Transaction_count"})
    THEN LET filtered_df == FilterPeriod(df, latest_year(df), latest_quarter(df))
         IN  create_choropleth_map(Grouped(filtered_df, "State"), "Transaction Heatmap")
    ELSE KeyError

\* lines 262-279
TransactionTrend(df) ==
    IF empty(df) THEN Nothing
    ELSE IF Has(df, {"Years", "Quarter", "Transaction_amount"})
    THEN Shows({}, {"Transaction Trend"}, {})
    ELSE KeyError

\* lines 194-279
Dashboard(d) ==
    Run(<< metric(d.agg_transaction, "Transaction_count", "Total Transactions"),
           metric(d.agg_transaction, "Transaction_amount", "Total Amount"),
           metric(d.top_user, "Registered_Users", "Registered Users"),
           metric(d.agg_insurance, "Insurance_amount", "Insurance Amount"),
           TransactionHeatmap(d.agg_transaction),
           TransactionTrend(d.agg_transaction) >>)

\* lines 353-362: the payment type pie, skipped when the column is absent
PaymentTypes(filtered_data) ==
    IF "Transaction_type" \in filtered_data.columns
    THEN IF Has(filtered_data, {"Transaction_count"})
         THEN create_chart(Grouped(filtered_data, "Transaction_type"),
                           "Payment Type Distribution")
         ELSE KeyError
    ELSE Nothing

\* the heatmap and the top-10 bar of a state summary, as in lines 317-349,
\* 494-529 and 552-587: one groupby("State") reducing cols, two charts
StateSummary(filtered_data, cols, map_chart, bar_chart) ==
    IF Has(filtered_data, {"State"} \cup cols)
    THEN Run(<< create_choropleth_map(Grouped(filtered_data, "State"), map_chart),
                create_chart(Grouped(filtered_data, "State"), bar_chart) >>)
    ELSE KeyError

\* lines 309-362
TransactionDynamicsStudy(d, year, quarter) ==
    IF empty(d.agg_transaction) THEN Nothing
    ELSE LET filtered_data == FilterPeriod(d.agg_transaction, year, quarter)
         IN  IF empty(filtered_data) THEN Nothing
             ELSE Run(<< StateSummary(filtered_data,
                                      {"Transaction_amount", "Transaction_count"},
                                      "State-wise Transaction Heatmap",
                                      "Top 10 States by Amount"),
                         PaymentTypes(filtered_data) >>)

\* lines 387-397
DeviceBrands(user_data) ==
    IF ~empty(user_data) /\ "Brands" \in user_data.columns
    THEN IF Has(user_data, {"Transaction_count"})
         THEN create_chart(Grouped(user_data, "Brands"), "Device Brand Distribution")
         ELSE KeyError
    ELSE Nothing

\* lines 400-415
TopDistricts(map_user, year, quarter) ==
    IF empty(map_user) THEN Nothing
    ELSE IF ~Has(map_user, {"Years", "Quarter"}) THEN KeyError
    ELSE LET map_user_filtered == FilterPeriod(map_user, year, quarter)
         IN  IF ~empty(map_user_filtered) /\ "AppOpens" \in map_user_filtered.columns
             THEN IF Has(map_user_filtered, {"District"})
                  THEN create_chart(Grouped(map_user_filtered, "District"),
                                    "Top Districts by App Opens")
                  ELSE KeyError
             ELSE Nothing

\* lines 378-415
DeviceUsageStudy(d, year, quarter) ==
    IF empty(d.agg_user) THEN Nothing
    ELSE LET user_data == FilterPeriod(d.agg_user, year, quarter)
         IN  Run(<< DeviceBrands(user_data), TopDistricts(d.map_user, year, quarter) >>)

\* lines 459-471
QuarterlyGrowth(agg_insurance, year) ==
    LET yearly_data == FilterYear(agg_insurance, year)
    IN  IF empty(yearly_data) THEN Nothing
        ELSE IF Has(yearly_data, {"Quarter", "Insurance_amount"})
        THEN Shows({}, {"Quarterly Growth Trend"}, {})
        ELSE KeyError

\* lines 431-471
InsuranceStudy(d, year, quarter) ==
    IF empty(d.agg_insurance) THEN Nothing
    ELSE LET insurance_data == FilterPeriod(d.agg_insurance, year, quarter)
         IN  IF empty(insurance_data) THEN Nothing
             ELSE IF Has(insurance_data, {"State", "Insurance_amount", "Insurance_count"})
             THEN Run(<< create_choropleth_map(Grouped(insurance_data, "State"),
                                               "Insurance Coverage Heatmap"),
                         QuarterlyGrowth(d.agg_insurance, year) >>)
             ELSE KeyError

\* lines 487-529
MarketExpansionStudy(d, year, quarter) ==
    IF empty(d.map_transaction) THEN Nothing
    ELSE LET expansion_data == FilterPeriod(d.map_transaction, year, quarter)
         IN  IF empty(expansion_data) THEN Nothing
             ELSE StateSummary(expansion_data,
                               {"Transaction_amount", "Transaction_count"},
                               "Market Penetration Heatmap",
                               "Growth Opportunity Analysis")

\* lines 545-587
UserGrowthStudy(d, year, quarter) ==
    IF empty(d.map_user) THEN Nothing
    ELSE LET user_growth_data == FilterPeriod(d.map_user, year, quarter)
         IN  IF empty(user_growth_data) THEN Nothing
             ELSE StateSummary(user_growth_data, {"RegisteredUsers", "AppOpens"},
                               "User Distribution Heatmap",
                               "User Engagement Analysis")

\* what the run of the script leaves on the page
Shown(r) ==
    [done |-> TRUE, raised |-> r.raised, metrics |-> r.metrics,
     charts |-> r.charts, reports |-> r.reports]

-----------------------------------------------------------------------------
(* The frames a run derives and the columns it assigns to them *)

\* the frames the pages name: the frame (or table of data) each is made of and
\* the pandas operations that make it, in order (lines 240-246, 263, 310-320,
\* 339, 432-441, 488-497, 546-555)
Derivations ==
    [filtered_df |-> [of |-> "agg_transaction", by |-> <<"getitem", "groupby">>],
     trend_data |-> [of |-> "agg_transaction", by |-> <<"groupby">>],
     filtered_data |-> [of |-> "agg_transaction", by |-> <<"getitem">>],
     state_summary |-> [of |-> "filtered_data", by |-> <<"groupby">>],
     top_states |-> [of |-> "state_summary", by |-> <<"nlargest">>],
     insurance_data |-> [of |-> "agg_insurance", by |-> <<"getitem">>],
     insurance_summary |-> [of |-> "insurance_data", by |-> <<"groupby">>],
     expansion_data |-> [of |-> "map_transaction", by |-> <<"getitem">>],
     expansion_summary |-> [of |-> "expansion_data", by |-> <<"groupby">>],
     user_growth_data |-> [of |-> "map_user", by |-> <<"getitem">>],
     user_summary |-> [of |-> "user_growth_data", by |-> <<"groupby">>]]

\* a pandas where groupby(...).agg(...).reset_index() hands back its input
groupby_returns_input(op) == op \in {"getitem", "nlargest"}

\* df[boolean mask], df.groupby(...).agg(...).reset_index() (and
\* [col].sum().reset_index()) and df.nlargest(...) each return a new frame
returns_new_frame(op) == op \in {"getitem", "groupby", "nlargest"}

RECURSIVE owner(_)
\* the object a name refers to: a table of data, or the frame itself when one
\* of the operations that made it returned a new frame
owner(name) ==
    IF name \notin DOMAIN Derivations THEN name
    ELSE LET by == Derivations[name].by
         IN  IF \E i \in 1..Len(by) : returns_new_frame(by[i]) THEN name
             ELSE owner(Derivations[name].of)

\* the frame[column] = ... assignments of a run, as <<frame, column>>, that
\* the emptiness guards of its page let it reach (lines 248, 264, 321, 340,
\* 442, 498, 517, 556, 575)
Assignments(d, p, study, year, quarter) ==
    IF p = DashboardPage
    THEN IF empty(d.agg_transaction) THEN {}
         ELSE {<<"filtered_df", "Amount_M">>, <<"trend_data", "Period">>}
    ELSE IF study = TransactionDynamics
    THEN IF empty(FilterPeriod(d.agg_transaction, year, quarter)) THEN {}
         ELSE {<<"state_summary", "Amount_M">>, <<"top_states", "Amount_B">>}
    ELSE IF study = InsuranceMarket
    THEN IF empty(FilterPeriod(d.agg_insurance, year, quarter)) THEN {}
         ELSE {<<"insurance_summary", "Amount_K">>}
    ELSE IF study = MarketExpansion
    THEN IF empty(FilterPeriod(d.map_transaction, year, quarter)) THEN {}
         ELSE {<<"expansion_summary", "Amount_M">>, <<"expansion_summary", "Growth_Score">>}
    ELSE IF study = UserGrowth
    THEN IF empty(FilterPeriod(d.map_user, year, quarter)) THEN {}
         ELSE {<<"user_summary", "Users_K">>, <<"user_summary", "Engagement_Rate">>}
    ELSE {}

\* the tables of data after the assignments: a column assigned to a name that
\* refers to a table is a column of that table
setitem(d, assignments) ==
    [k \in DOMAIN Columns |->
        [d[k] EXCEPT !.columns =
            @ \cup {a[2] : a \in {b \in assignments : owner(b[1]) = k}}]]

\* data after a run of the script
AfterRun(d, p, study, year, quarter) ==
    setitem(d, Assignments(d, p, study, year, quarter))

AppInit ==
    /\ NamesIdle
    /\ AggIdle
    /\ RankIdle
    /\ LoadIdle
    /\ CacheIdle
    /\ data \in LoadedData
    /\ geojson_data \in {"features", "no features"}
    /\ page = ""
    /\ case_study = ""
    /\ selected_year = 0
    /\ selected_quarter = 0
    /\ shown = NoOutput

\* a run of the script with the Dashboard selected
ViewDashboard ==
    /\ page' = DashboardPage
    /\ case_study' = ""
    /\ selected_year' = 0
    /\ selected_quarter' = 0
    /\ shown' = Shown(Dashboard(data))
    /\ data' = AfterRun(data, DashboardPage, "", 0, 0)
    /\ UNCHANGED <<geojson_data, exceptApp>>

\* a run of the script with a case study, a year and a quarter selected
ViewTransactionDynamics ==
    \E year \in years(data.agg_transaction) :
      \E quarter \in quarters(data.agg_transaction, year) :
        /\ page' = CaseStudiesPage
        /\ case_study' = TransactionDynamics
        /\ selected_year' = year
        /\ selected_quarter' = quarter
        /\ shown' = Shown(TransactionDynamicsStudy(data, year, quarter))
        /\ data' = AfterRun(data, CaseStudiesPage, TransactionDynamics, year, quarter)
        /\ UNCHANGED <<geojson_data, exceptApp>>

ViewDeviceUsage ==
    \E year \in years(data.agg_user) :
      \E quarter \in quarters(data.agg_user, year) :
        /\ page' = CaseStudiesPage
        /\ case_study' = DeviceUsage
        /\ selected_year' = year
        /\ selected_quarter' = quarter
        /\ shown' = Shown(DeviceUsageStudy(data, year, quarter))
        /\ data' = AfterRun(data, CaseStudiesPage, DeviceUsage, year, quarter)
        /\ UNCHANGED <<geojson_data, exceptApp>>

ViewInsurance ==
    \E year \in years(data.agg_insurance) :
      \E quarter \in quarters(data.agg_insurance, year) :
        /\ page' = CaseStudiesPage
        /\ case_study' = InsuranceMarket
        /\ selected_year' = year
        /\ selected_quarter' = quarter
        /\ shown' = Shown(InsuranceStudy(data, year, quarter))
        /\ data' = AfterRun(data, CaseStudiesPage, InsuranceMarket, year, quarter)
        /\ UNCHANGED <<geojson_data, exceptApp>>

ViewMarketExpansion ==
    \E year \in years(data.map_transaction) :
      \E quarter \in quarters(data.map_transaction, year) :
        /\ page' = CaseStudiesPage
        /\ case_study' = MarketExpansion
        /\ selected_year' = year
        /\ selected_quarter' = quarter
        /\ shown' = Shown(MarketExpansionStudy(data, year, quarter))
        /\ data' = AfterRun(data, CaseStudiesPage, MarketExpansion, year, quarter)
        /\ UNCHANGED <<geojson_data, exceptApp>>

ViewUserGrowth ==
    \E year \in years(data.map_user) :
      \E quarter \in quarters(data.map_user, year) :
        /\ page' = CaseStudiesPage
        /\ case_study' = UserGrowth
        /\ selected_year' = year
        /\ selected_quarter' = quarter
        /\ shown' = Shown(UserGrowthStudy(data, year, quarter))
        /\ data' = AfterRun(data, CaseStudiesPage, UserGrowth, year, quarter)
        /\ UNCHANGED <<geojson_data, exceptApp>>

Next ==
    \/ ViewDashboard
    \/ ViewTransactionDynamics
    \/ ViewDeviceUsage
    \/ ViewInsurance
    \/ ViewMarketExpansion
    \/ ViewUserGrowth

Spec == AppInit /\ [][Next]_vars

-----------------------------------------------------------------------------
(* The memoized loads: load_all_data and load_table_data under st.cache_data *)

\* load_all_data's tables dict, lines 103-113
tables ==
    [agg_transaction |-> "aggregated_transaction",
     agg_insurance |-> "aggregated_insurance",
     agg_user |-> "aggregated_user",
     map_transaction |-> "map_transaction",
     map_insurance |-> "map_insurance",
     map_user |-> "map_user",
     top_transaction |-> "top_transaction",
     top_insurance |-> "top_insurance",
     top_user |-> "top_user"]

\* what the database may answer: whether create_engine succeeds, whether
\* read_sql does, and the periods its tables hold (none when they have no rows)
Sources ==
    [create_engine_ok : BOOLEAN, read_sql : {"ok", "unreachable"},
     periods : {{}, FirstPeriod, Periods}]

\* the table as the database stores it: its state column is named States
Stored(key, src) ==
    [Loaded(key, src.periods) EXCEPT !.columns = (@ \ {"State"}) \cup {"States"}]

\* the body of load_table_data, lines 69-95, run on the table of a data key
load_table(key, engine, src) ==
    LET r == load_table_data(tables[key], engine, src.read_sql, Stored(key, src), "object")
    IN  [df |-> IF engine = "None" \/ TryRaises(src.read_sql, Stored(key, src), "object")
                THEN EmptyTable
                ELSE r.df,
         errors |-> r.errors]

\* an entry of st.cache_data: the value a call returned and the elements it
\* showed, which a later call with the same arguments returns and shows again
NotCached(value) == [cached |-> FALSE, value |-> value, errors |-> {}]
Cached(value, errors) == [cached |-> TRUE, value |-> value, errors |-> errors]

NoTables == [k \in DOMAIN tables |-> EmptyTable]

EmptyCache ==
    [load_all_data |-> NotCached(NoTables),
     load_table_data |-> [k \in DOMAIN tables |-> NotCached(EmptyTable)]]

\* load_all_data(), lines 100-119, under st.cache_data: a call after the first
\* returns the entry.  The first runs the body, whose load_table_data(table_name)
\* calls, lines 66-95, are memoized per table_name in the same way; a call that
\* misses asks get_database_engine for the engine.
load_all_data(cache, engine_c, src) ==
    IF cache.load_all_data.cached
    THEN [value |-> cache.load_all_data.value,
          errors |-> cache.load_all_data.errors,
          cache |-> cache,
          engine_cache |-> engine_c]
    ELSE LET misses == {k \in DOMAIN tables : ~cache.load_table_data[k].cached}
             e == get_database_engine(engine_c, src.create_engine_ok)
             entry == [k \in DOMAIN tables |->
                         IF k \in misses
                         THEN LET r == load_table(k, e.engine, src)
                              IN  Cached(r.df, e.errors \cup r.errors)
                         ELSE cache.load_table_data[k]]
             value == [k \in DOMAIN tables |-> entry[k].value]
             errors == UNION {entry[k].errors : k \in DOMAIN tables}
         IN  [value |-> value,
              errors |-> errors,
              cache |-> [load_all_data |-> Cached(value, errors),
                         load_table_data |-> entry],
              engine_cache |-> IF misses = {} THEN engine_c ELSE e.cache]

CaseStudies ==
    {TransactionDynamics, DeviceUsage, InsuranceMarket, MarketExpansion, UserGrowth}

\* the table whose years and quarters a case study offers
\* (lines 303, 372, 425, 481, 539)
selector_table(d, study) ==
    IF study = TransactionDynamics THEN d.agg_transaction
    ELSE IF study = DeviceUsage THEN d.agg_user
    ELSE IF study = InsuranceMarket THEN d.agg_insurance
    ELSE IF study = MarketExpansion THEN d.map_transaction
    ELSE d.map_user

\* the selections the sidebar and the selectboxes of a run allow
Selections(d) ==
    {[page |-> DashboardPage, case_study |-> "", year |-> 0, quarter |-> 0]}
    \cup UNION {UNION {{[page |-> CaseStudiesPage, case_study |-> study,
                         year |-> y, quarter |-> q] :
                           q \in quarters(selector_table(d, study), y)} :
                         y \in years(selector_table(d, study))} :
                  study \in CaseStudies}

\* lines 194-587: the page the selection names
Render(d, sel) ==
    IF sel.page = DashboardPage THEN Dashboard(d)
    ELSE IF sel.case_study = TransactionDynamics
    THEN TransactionDynamicsStudy(d, sel.year, sel.quarter)
    ELSE IF sel.case_study = DeviceUsage THEN DeviceUsageStudy(d, sel.year, sel.quarter)
    ELSE IF sel.case_study = InsuranceMarket THEN InsuranceStudy(d, sel.year, sel.quarter)
    ELSE IF sel.case_study = MarketExpansion
    THEN MarketExpansionStudy(d, sel.year, sel.quarter)
    ELSE UserGrowthStudy(d, sel.year, sel.quarter)

CacheInit ==
    /\ NamesIdle
    /\ AggIdle
    /\ RankIdle
    /\ call = NoCall
    /\ engine_cache = "unset"
    /\ database \in Sources
    /\ data_cache = EmptyCache
    /\ load_errors = {}
    /\ data = NoTables
    /\ geojson_data = "features"
    /\ page = ""
    /\ case_study = ""
    /\ selected_year = 0
    /\ selected_quarter = 0
    /\ shown = NoOutput

\* one run of the script, lines 183-587: the first run and every rerun a
\* selection triggers start with data = load_all_data()
RunScript ==
    LET l == load_all_data(data_cache, engine_cache, database)
    IN  \E sel \in Selections(l.value) :
          /\ data' = AfterRun(l.value, sel.page, sel.case_study, sel.year, sel.quarter)
          /\ data_cache' = l.cache
          /\ engine_cache' = l.engine_cache
          /\ load_errors' = l.errors
          /\ page' = sel.page
          /\ case_study' = sel.case_study
          /\ selected_year' = sel.year
          /\ selected_quarter' = sel.quarter
          /\ shown' = Shown(Render(l.value, sel))
          /\ UNCHANGED <<database, geojson_data, exceptCache>>

\* the database changes between two runs: it becomes reachable or
\* unreachable, or its tables gain or lose rows
SourceChanges ==
    \E s \in Sources :
      /\ s # database
      /\ s.create_engine_ok = database.create_engine_ok
      /\ database' = s
      /\ UNCHANGED <<data_cache, load_errors, engine_cache, appVars, exceptCache>>

CacheNext == RunScript \/ SourceChanges

SpecCache == CacheInit /\ [][CacheNext]_vars

-----------------------------------------------------------------------------
(* Properties of the two loaders' standardization (SpecNames) *)

\* C1: for every raw name, the key load_geojson_data gives it (State_Name)
\* equals the key load_table_data gives it (the standardized States cell).
C1_SameKeyFromBothLoaders ==
    (isinstance_str(raw_name) /\ table_key # Unset /\ geo_key # Unset)
        => geo_key = table_key

\* C4: load_table_data's standardization gives every input a string key: the
\* empty string for a non-string input, and for a string the lowercased,
\* trimmed name, "orissa" rewritten to "odisha" and names outside the mapping
\* table passed through.
C4_TableKeyTotal ==
    table_key # Unset =>
        /\ isinstance_str(table_key)
        /\ ~isinstance_str(raw_name) => table_key = Str(<<>>)
        /\ isinstance_str(raw_name) =>
              LET t == strip(lower(raw_name.chars))
              IN  /\ t = orissa => table_key = Str(odisha)
                  /\ (\A m \in state_mappings : m[1] # t) => table_key = Str(t)

\* C5: load_table_data's standardization applied to its own output gives the
\* same key as applying it once.
C5_StandardizeIdempotent ==
    table_key2 # Unset => table_key2 = table_key

\* C5's case: a padded, capitalized name that the mapping table rewrote, and
\* that was standardized a second time
C5_RewrittenTwice ==
    /\ table_key2 # Unset
    /\ isinstance_str(raw_name)
    /\ raw_name.chars # lower(raw_name.chars)
    /\ Len(raw_name.chars) > Len(strip(raw_name.chars))
    /\ table_key = Str(andaman_amp)

-----------------------------------------------------------------------------
(* Properties of the aggregation layer (SpecAgg) *)

ReducedColumns ==
    IF view = MarketExpansion THEN {"Transaction_amount", "Transaction_count"}
    ELSE {"RegisteredUsers", "AppOpens"}

\* C2: the sum of each reduced column over the rows of groupby(...).sum()
\* equals its sum over the filtered input rows, rows with a null key included.
C2_GroupSumsPreserveTotals ==
    summary.done =>
        \A c \in ReducedColumns : SumCol(summary.rows, c) = SumCol(filtered, c)

Denominator(row) ==
    IF view = MarketExpansion THEN row.Transaction_count ELSE row.RegisteredUsers

\* C3: Growth_Score and Engagement_Rate are 0 whenever their denominator is
\* 0, whatever the numerator, and are never NaN or infinite.
C3_DivisionByZeroGivesZero ==
    scores.done =>
        \A i \in 1..Len(scores.rows) :
            /\ scores.rows[i].kind = "num"
            /\ Denominator(summary.rows[i]) = 0 => IsZero(scores.rows[i])

-----------------------------------------------------------------------------
(* Properties of the ranking (SpecRank) *)

Included == {ranked.rows[k] : k \in 1..Len(ranked.rows)}

\* exactly topn distinct rows, in descending order of the ranking column, no
\* excluded row above an included one
TopNRows ==
    /\ Len(ranked.rows) = topn
    /\ Cardinality(Included) = topn
    /\ Included \subseteq 1..Len(frame)
    /\ \A k \in 1..(Len(ranked.rows) - 1) :
           frame[ranked.rows[k]] >= frame[ranked.rows[k + 1]]
    /\ \A i \in Included : \A j \in (1..Len(frame)) \ Included : frame[j] <= frame[i]

\* rows with equal ranking values appear in their input order
TiesInInputOrder ==
    \A k, l \in 1..Len(ranked.rows) :
        (k < l /\ frame[ranked.rows[k]] = frame[ranked.rows[l]])
            => ranked.rows[k] < ranked.rows[l]

\* C6 as stated: for n not larger than the number of rows, nlargest gives
\* exactly n rows in descending order, no excluded row ranks above an
\* included one, and equal values keep their input order.
C6_TopNStableOrder ==
    (ranked.done /\ topn <= Len(frame)) => (TopNRows /\ TiesInInputOrder)

\* C6 amended: the same, with the input order of equal values promised only
\* when n is smaller than the number of rows.
C6_TopNStableWhenCut ==
    (ranked.done /\ topn <= Len(frame)) =>
        /\ TopNRows
        /\ topn < Len(frame) => TiesInInputOrder

\* C6's case: n smaller than the number of rows, two included rows tie, and an
\* excluded row ties with the last included one
C6_CutThroughTie ==
    /\ ranked.done
    /\ topn < Len(frame)
    /\ \E k \in 1..(topn - 1) : frame[ranked.rows[k]] = frame[ranked.rows[k + 1]]
    /\ \E j \in (1..Len(frame)) \ Included : frame[j] = frame[ranked.rows[topn]]

-----------------------------------------------------------------------------
(* Properties of the table loader (SpecLoad) *)

\* the call met one of the failures: no engine, a failed query or an absent
\* table, a States column that cannot be standardized
LoadFailure ==
    \/ call.engine = "None"
    \/ call.read_sql # "ok"
    \/ "States" \in call.source.columns /\ call.dtype # "object"

\* C8: load_table_data never raises to its caller; on a failure it returns
\* an empty row set and an error is reported.
C8_LoaderNeverRaises ==
    call.outcome # "not called" =>
        /\ call.outcome = "returned"
        /\ LoadFailure => (call.df = EmptyFrame /\ call.errors # {})

\* C8's case: the query succeeded with rows and the standardization of the
\* States column failed
C8_StandardizationFailed ==
    /\ call.outcome = "returned"
    /\ call.engine = "engine"
    /\ call.read_sql = "ok"
    /\ call.source.rows > 0
    /\ "States" \in call.source.columns
    /\ call.dtype = "int64"
    /\ call.df = EmptyFrame

-----------------------------------------------------------------------------
(* Properties of the pages (Spec) *)

DataKeys == DOMAIN Columns

Selected == <<selected_year, selected_quarter>>

\* the run showed a case study whose selected period has rows in its first
\* table and none in map_user, which is loaded
PeriodAbsentFromMapUser ==
    /\ shown.done
    /\ case_study = DeviceUsage
    /\ ~empty(data.agg_user)
    /\ ~empty(data.map_user)
    /\ Selected \notin data.map_user.periods

\* the charts whose builder was handed an empty summary in the run shown: the
\* period has rows, and their State cells are all null
ChartsOfEmptySummary ==
    IF ~shown.done \/ ~data.agg_transaction.null_state THEN {}
    ELSE IF page = DashboardPage THEN {"Transaction Heatmap"}
    ELSE IF case_study = TransactionDynamics
    THEN {"State-wise Transaction Heatmap", "Top 10 States by Amount"}
    ELSE {}

\* C7: a (year, quarter) with no rows in the filtered table gives an empty
\* result and no exception: the run completes and shows no chart of that
\* table; a chart builder handed an empty frame warns and yields no chart.
C7_AbsentPeriodGivesNoChart ==
    /\ PeriodAbsentFromMapUser =>
          (~shown.raised /\ "Top Districts by App Opens" \notin shown.charts)
    /\ ChartsOfEmptySummary # {} =>
          /\ ~shown.raised
          /\ ChartsOfEmptySummary \cap shown.charts = {}
          /\ shown.reports \cap {NoMapData, NoChartData} # {}

\* C7's case: Device Usage shown for a period that map_user does not hold
C7_DeviceUsageWithoutDistrictRows ==
    /\ PeriodAbsentFromMapUser
    /\ ~shown.raised
    /\ Has(data.map_user, {"District", "AppOpens"})

\* the run shown is of a view whose non-empty filtered table lacks a column
\* the view groups by or reduces
ViewLacksColumn ==
    /\ shown.done
    /\ \/ /\ case_study = TransactionDynamics
          /\ Selected \in data.agg_transaction.periods
          /\ "Transaction_type" \notin data.agg_transaction.columns
       \/ /\ case_study = DeviceUsage
          /\ Selected \in data.agg_user.periods
          /\ "Brands" \notin data.agg_user.columns
       \/ /\ case_study = DeviceUsage
          /\ ~empty(data.agg_user)
          /\ Selected \in data.map_user.periods
          /\ "AppOpens" \notin data.map_user.columns
       \/ /\ case_study = InsuranceMarket
          /\ Selected \in data.agg_insurance.periods
          /\ "State" \notin data.agg_insurance.columns

\* C9: when a column a view groups by or reduces is absent from a non-empty
\* table, the run surfaces the mismatch as a failure (the only failure the
\* script can surface is the uncaught KeyError): no view is silently skipped.
C9_AbsentColumnSurfaces ==
    ViewLacksColumn => shown.raised

\* every table is empty or has the columns the pages read
LoadedOrEmpty ==
    \A k \in DataKeys : empty(data[k]) \/ Has(data[k], Columns[k])

\* the sections of an empty table show 0 and no chart
Degraded ==
    /\ page = DashboardPage =>
          /\ empty(data.agg_transaction) =>
                /\ <<"Total Transactions", "0">> \in shown.metrics
                /\ <<"Total Amount", "0">> \in shown.metrics
                /\ shown.charts = {}
          /\ empty(data.top_user) => <<"Registered Users", "0">> \in shown.metrics
          /\ empty(data.agg_insurance) => <<"Insurance Amount", "0">> \in shown.metrics
    /\ (case_study = TransactionDynamics /\ empty(data.agg_transaction)) => shown.charts = {}
    /\ (case_study = DeviceUsage /\ empty(data.agg_user)) => shown.charts = {}
    /\ (case_study = DeviceUsage /\ empty(data.map_user)) =>
          "Top Districts by App Opens" \notin shown.charts
    /\ (case_study = InsuranceMarket /\ empty(data.agg_insurance)) => shown.charts = {}
    /\ (case_study = MarketExpansion /\ empty(data.map_transaction)) => shown.charts = {}
    /\ (case_study = UserGrowth /\ empty(data.map_user)) => shown.charts = {}

\* C10: whichever tables (and the boundary file) came back empty from a
\* failed load, every run of the script completes without an exception and
\* the sections of the empty tables show 0 and no chart.
C10_FailedLoadsNeverRaise ==
    (shown.done /\ LoadedOrEmpty) => (~shown.raised /\ Degraded)

\* C10's case: the Dashboard shown when the loads of agg_transaction and of
\* the boundary file failed and top_user is loaded
C10_DashboardWithFailedLoads ==
    /\ shown.done
    /\ page = DashboardPage
    /\ LoadedOrEmpty
    /\ data.agg_transaction = EmptyTable
    /\ geojson_data = "no features"
    /\ ~empty(data.top_user)
    /\ <<"Registered Users", "sum">> \in shown.metrics
    /\ ~shown.raised

\* the table a page filters first (lines 236, 309, 378, 431, 487, 545)
PrimaryTable ==
    IF page = DashboardPage THEN data.agg_transaction
    ELSE IF case_study = TransactionDynamics THEN data.agg_transaction
    ELSE IF case_study = DeviceUsage THEN data.agg_user
    ELSE IF case_study = InsuranceMarket THEN data.agg_insurance
    ELSE IF case_study = MarketExpansion THEN data.map_transaction
    ELSE data.map_user

\* the run shown is of a page with a section that has no data: its table is
\* empty, or the selected period leaves no rows of it
SectionWithoutData ==
    /\ shown.done
    /\ ~shown.raised
    /\ \/ empty(PrimaryTable)
       \/ /\ page = CaseStudiesPage
          /\ Selected \notin PrimaryTable.periods
       \/ /\ case_study = DeviceUsage
          /\ Selected \notin data.map_user.periods

\* C11: whenever a section of the page shown has no data for the selected
\* filter (its table is empty, or the period leaves no rows), the run reports
\* a "no data" state (the st.warning of a chart builder is the only such
\* report in the script): no such section is left blank.
C11_NoDataIsReported ==
    SectionWithoutData => shown.reports \cap {NoMapData, NoChartData} # {}

-----------------------------------------------------------------------------
(* Properties of the memoized loads (SpecCache) *)

\* the tables a run would hold had it read every table from the database as
\* it is now, through the memoized connection
FreshTables(engine, src) == [k \in DOMAIN tables |-> load_table(k, engine, src).df]

\* a step that is a run of the script: it leaves the database alone
IsRun == database' = database

\* C12: every run of the script (the first one and each rerun a selection of
\* page, case study, year or quarter triggers) reads its tables from the
\* database as it is at that run: the data it renders is what a fresh read
\* gives, never what an earlier load left (only the connection is memoized).
C12_EveryRunReadsFresh ==
    [][IsRun => data' = FreshTables(engine_cache', database')]_vars

-----------------------------------------------------------------------------
(* Properties of the loaded data across runs (Spec) *)

\* the frame[column] = ... assignments of the run shown
AssignedByRunShown ==
    Assignments(data, page, case_study, selected_year, selected_quarter)

\* C13: across any sequence of runs, the nine tables of data and the
\* boundary geometry keep the rows, columns and values they had when loading
\* finished, and every derived column a run assigns goes to a frame that an
\* aggregation or a ranking newly returned, never to a table of data.
C13_LoadedDataNeverMutated ==
    [][/\ data' = data
       /\ geojson_data' = geojson_data
       /\ \A a \in AssignedByRunShown' : owner(a[1]) \notin DOMAIN Columns]_vars

\* C13's case: Transaction Dynamics was shown for a period with rows, so
\* Amount_M and Amount_B were assigned, and agg_transaction is as loaded
C13_DerivedColumnsLeaveTableAlone ==
    /\ shown.done
    /\ case_study = TransactionDynamics
    /\ "Top 10 States by Amount" \in shown.charts
    /\ {<<"state_summary", "Amount_M">>, <<"top_states", "Amount_B">>}
          \subseteq AssignedByRunShown
    /\ data.agg_transaction = Loaded("agg_transaction", Periods)

-----------------------------------------------------------------------------
(* Properties of the year and quarter selections (Spec) *)

\* p is the greatest of the (Years, Quarter) pairs P: by year, then by quarter
GreatestPeriod(p, P) ==
    /\ p \in P
    /\ \A r \in P : r[1] < p[1] \/ (r[1] = p[1] /\ r[2] <= p[2])

\* C14: in a case study whose primary table is not empty, the quarters
\* offered are those the table holds for the selected year, so the selected
\* (year, quarter) is a period of the table and the filtered rows are never
\* empty; and on the Dashboard (latest_year, latest_quarter) is the greatest
\* (Years, Quarter) pair of agg_transaction.
C14_SelectionHasRows ==
    /\ (shown.done /\ page = CaseStudiesPage /\ ~empty(PrimaryTable)) =>
          /\ selected_quarter \in {p[2] : p \in {r \in PrimaryTable.periods :
                                                     r[1] = selected_year}}
          /\ Selected \in PrimaryTable.periods
          /\ ~empty(FilterPeriod(PrimaryTable, selected_year, selected_quarter))
    /\ (shown.done /\ page = DashboardPage /\ ~empty(data.agg_transaction)) =>
          GreatestPeriod(<<latest_year(data.agg_transaction),
                           latest_quarter(data.agg_transaction)>>,
                         data.agg_transaction.periods)

\* C14's case: Market Expansion shown for the first quarter of 2023, the only
\* quarter of that year, of a table whose other year has a second quarter
C14_YearWithFewerQuarters ==
    /\ shown.done
    /\ case_study = MarketExpansion
    /\ Selected = <<2023, 1>>
    /\ <<2022, 2>> \in data.map_transaction.periods
    /\ <<2023, 2>> \notin data.map_transaction.periods
    /\ "Market Penetration Heatmap" \in shown.charts

====
